---- MODULE Spec2Model ----
(***************************************************************************)
(* Warmup-composing learning-rate scheduler (utils/scheduler.py) together  *)
(* with the save / resume path of the training driver (train.py).          *)
(*                                                                         *)
(* Rates are exact rationals <<num, den>> (den > 0, lowest terms) standing *)
(* for the Python floats; cos(pi*k/T_max) is tabulated for the T_max       *)
(* values for which it is rational.  Python lists that are shared by       *)
(* reference (optimizer.param_groups, LRWarmupWrapper.param_groups) live   *)
(* in `heap` and are named by their index in it.                           *)
(***************************************************************************)
EXTENDS Integers, Sequences, FiniteSets, TLC

VARIABLES
    cfg,              \* the configuration of the run (and the optimizer's initial rates)
    pc,               \* "start", "running" or "failed"
    via,              \* how the scheduler was built: "build_scheduler" or "direct"
    err,              \* the exception construction raised, "none" otherwise
    heap,             \* the list objects holding the per-group rates
    optimizer,        \* optimizer.param_groups: an index into heap
    torch_scheduler,  \* the fields of the underlying torch scheduler
    scheduler,        \* the fields of the LRWarmupWrapper, if one was built
    ckpt,             \* training_states.pt as last saved
    calls,            \* scheduler.step() calls of the run so far, across a resume
    resumedAt,        \* ckpt.step of the checkpoint the run resumed from, -1 if none
    drv               \* the training driver: its position in main, counters and saved files

vars == <<cfg, pc, via, err, heap, optimizer, torch_scheduler, scheduler,
          ckpt, calls, resumedAt, drv>>

(* ------------------------------ bounds --------------------------------- *)
MaxCalls == 7
MaxWarmup == 4
MaxGroups == 2
MaxSteps == 3
MaxBatches == 2
MaxRuns == 2

(* --------------------------- exact rationals --------------------------- *)
RECURSIVE GCD(_, _)
GCD(a, b) == IF b = 0 THEN a ELSE GCD(b, a % b)

Abs(n) == IF n < 0 THEN -n ELSE n

Rat(n, d) ==
    LET s == IF d < 0 THEN -1 ELSE 1
        g == GCD(Abs(n), Abs(d))
    IN  IF n = 0 THEN <<0, 1>> ELSE <<(s * n) \div g, (s * d) \div g>>

RAdd(a, b) == Rat(a[1] * b[2] + b[1] * a[2], a[2] * b[2])
RSub(a, b) == Rat(a[1] * b[2] - b[1] * a[2], a[2] * b[2])
RMul(a, b) == Rat(a[1] * b[1], a[2] * b[2])
RDiv(a, b) == Rat(a[1] * b[2], a[2] * b[1])
RLt(a, b)  == a[1] * b[2] < b[1] * a[2]
RLe(a, b)  == a[1] * b[2] <= b[1] * a[2]
RInt(n)    == <<n, 1>>

RECURSIVE RPow(_, _)
RPow(a, n) == IF n = 0 THEN RInt(1) ELSE RMul(a, RPow(a, n - 1))

(* cos(pi * k / T) for the T with rational values *)
CosPi(k, T) ==
    LET r == k % (2 * T)
    IN  CASE T = 1 -> IF r = 0 THEN RInt(1) ELSE RInt(-1)
          [] T = 2 -> IF r = 0 THEN RInt(1) ELSE IF r = 2 THEN RInt(-1) ELSE RInt(0)
          [] T = 3 -> CASE r = 0 -> RInt(1)
                        [] r = 1 -> Rat(1, 2)
                        [] r = 2 -> Rat(-1, 2)
                        [] r = 3 -> RInt(-1)
                        [] r = 4 -> Rat(-1, 2)
                        [] r = 5 -> Rat(1, 2)

(* ------------------------------ inputs --------------------------------- *)
Int_(n)   == [t |-> "int", v |-> RInt(n)]
Float_(r) == [t |-> "float", v |-> r]
Absent    == [t |-> "absent", v |-> RInt(0)]

LrValues == {Rat(1, 10), RInt(1)}

(* the optimizer's initial rates: n groups, group g at v / g *)
LrLists == {[g \in 1..n |-> RDiv(v, RInt(g))] : n \in 1..MaxGroups, v \in LrValues}

SchedConfigs ==
    {[NAME |-> "CosineAnnealingLR", COSINE_T_MAX |-> T, COSINE_ETA_MIN |-> e,
      MULTISTEP_MILESTONES |-> <<>>, MULTISTEP_GAMMA |-> RInt(1)]
        : T \in {2, 3}, e \in {RInt(0), Rat(1, 100)}}
    \cup
    {[NAME |-> "MultiStepLR", COSINE_T_MAX |-> 1, COSINE_ETA_MIN |-> RInt(0),
      MULTISTEP_MILESTONES |-> ms, MULTISTEP_GAMMA |-> Rat(1, 10)]
        : ms \in {<<2>>, <<1, 4>>, <<5, 5>>}}
    \cup
    {[NAME |-> "StepLR", COSINE_T_MAX |-> 1, COSINE_ETA_MIN |-> RInt(0),
      MULTISTEP_MILESTONES |-> <<>>, MULTISTEP_GAMMA |-> RInt(1)]}

WarmupStepsValues ==
    {Absent, Float_(RInt(2))} \cup {Int_(n) : n \in (-1)..MaxWarmup}

WarmupFactorValues ==
    {Absent, Int_(0), Float_(RInt(0)), Float_(Rat(1, 10)), Float_(Rat(-1, 2)),
     Float_(RInt(1))}

Configs ==
    {[SCHED |-> s, WARMUP_STEPS |-> ws, WARMUP_FACTOR |-> wf, lr |-> l]
        : s \in SchedConfigs, ws \in WarmupStepsValues,
          wf \in WarmupFactorValues, l \in LrLists}

(* ------------------- torch.optim.lr_scheduler (chainable form) --------- *)
Count(ms, x) == Cardinality({i \in DOMAIN ms : ms[i] = x})

(* MultiStepLR.get_lr / CosineAnnealingLR.get_lr, read after last_epoch   *)
(* has been incremented; lrs are the optimizer's current group rates.     *)
MultiStepGetLr(sc, ts, lrs) ==
    IF Count(sc.MULTISTEP_MILESTONES, ts.last_epoch) = 0
    THEN lrs
    ELSE [g \in DOMAIN lrs |->
            RMul(lrs[g], RPow(sc.MULTISTEP_GAMMA,
                              Count(sc.MULTISTEP_MILESTONES, ts.last_epoch)))]

CosineGetLr(sc, ts, lrs) ==
    LET T   == sc.COSINE_T_MAX
        eta == sc.COSINE_ETA_MIN
        t   == ts.last_epoch
        one == RInt(1)
        two == RInt(2)
    IN  IF t = 0 THEN lrs
        ELSE IF ts.step_count = 1 /\ t > 0
        THEN [g \in DOMAIN lrs |->
                RAdd(eta, RDiv(RMul(RSub(ts.base_lrs[g], eta),
                                    RAdd(one, CosPi(t, T))), two))]
        ELSE IF (t - 1 - T) % (2 * T) = 0
        THEN [g \in DOMAIN lrs |->
                RAdd(lrs[g], RDiv(RMul(RSub(ts.base_lrs[g], eta),
                                       RSub(one, CosPi(1, T))), two))]
        ELSE [g \in DOMAIN lrs |->
                RAdd(RMul(RDiv(RAdd(one, CosPi(t, T)), RAdd(one, CosPi(t - 1, T))),
                          RSub(lrs[g], eta)), eta)]

TorchGetLr(sc, ts, lrs) ==
    IF sc.NAME = "CosineAnnealingLR" THEN CosineGetLr(sc, ts, lrs)
    ELSE MultiStepGetLr(sc, ts, lrs)

(* A system state: the heap of group-rate lists and the three objects.    *)
SetList(s, id, lrs) == [s EXCEPT !.heap = [@ EXCEPT ![id] = lrs]]

OptLrs(s) == s.heap[s.optimizer.param_groups]

(* _LRScheduler.step(): advances last_epoch and writes the new rates into *)
(* self.optimizer.param_groups (looked up through the optimizer).         *)
TorchStep(s) ==
    LET ts1 == [s.torch_scheduler EXCEPT !.step_count = @ + 1,
                                         !.last_epoch = @ + 1]
        new == TorchGetLr(s.cfg.SCHED, ts1, OptLrs(s))
    IN  [SetList(s, s.optimizer.param_groups, new)
            EXCEPT !.torch_scheduler = [ts1 EXCEPT !.last_lr = new]]

NoWrapper ==
    [present |-> FALSE, warmup_steps |-> 0, warmup_factor |-> RInt(0),
     param_groups |-> 0, base_lrs |-> <<>>, regular_lrs_in_warmup |-> <<>>,
     last_step |-> 0]

(* build_optimizer followed by the construction of the torch scheduler:   *)
(* one list of group rates, scheduler at last_epoch 0 after its initial   *)
(* step.                                                                   *)
NewTorchScheduler(c) ==
    [cfg |-> c,
     heap |-> <<c.lr>>,
     optimizer |-> [param_groups |-> 1],
     torch_scheduler |-> [last_epoch |-> 0, step_count |-> 1,
                          base_lrs |-> c.lr, last_lr |-> c.lr],
     scheduler |-> NoWrapper]

(* ----------------------------- LRWarmupWrapper ------------------------- *)
(* variant: the type assertion left out *)
CtorAssertsUntyped(warmup_steps, warmup_factor) ==
    RLt(RInt(0), warmup_steps.v) /\ RLt(warmup_factor.v, RInt(1))

(* the two assertions of __init__ *)
CtorAsserts(warmup_steps, warmup_factor) ==
    /\ warmup_steps.t = "int" /\ warmup_factor.t = "float"
    /\ RLt(RInt(0), warmup_steps.v) /\ RLt(warmup_factor.v, RInt(1))

(* _pre_compute_regular_lrs_in_warmup: steps the torch scheduler n more   *)
(* times, appending the rates read through self.param_groups.             *)
RECURSIVE PreComputeLoop(_, _, _, _)
PreComputeLoop(s, pg, traj, n) ==
    IF n = 0 THEN [sys |-> s, regular |-> traj]
    ELSE LET s1 == TorchStep(s)
         IN  PreComputeLoop(s1, pg, Append(traj, s1.heap[pg]), n - 1)

(* variant: each rate is recorded before the scheduler is stepped *)
PreComputeRecordFirst(s, pg, base_lrs, warmup_steps) ==
    LET r == PreComputeLoop(s, pg, <<base_lrs>>, warmup_steps)
    IN  [r EXCEPT !.regular =
            [i \in DOMAIN r.regular |-> IF i = 1 THEN base_lrs ELSE r.regular[i - 1]]]

PreCompute(s, pg, base_lrs, warmup_steps) ==
    PreComputeLoop(s, pg, <<base_lrs>>, warmup_steps)

(* variant: the starting rate is scaled from the rate left by the        *)
(* pre-computation instead of from base_lrs                               *)
ConstructScaleCurrent(s, warmup_steps, warmup_factor) ==
    LET pg   == s.optimizer.param_groups
        base == s.heap[pg]
        pre  == PreCompute(s, pg, base, warmup_steps)
        cur  == pre.sys.heap[pg]
        w    == [present |-> TRUE,
                 warmup_steps |-> warmup_steps,
                 warmup_factor |-> warmup_factor,
                 param_groups |-> pg,
                 base_lrs |-> base,
                 regular_lrs_in_warmup |-> pre.regular,
                 last_step |-> 0]
    IN  [SetList(pre.sys, pg, [g \in DOMAIN cur |-> RMul(cur[g], warmup_factor)])
            EXCEPT !.scheduler = w]

(* LRWarmupWrapper.__init__ once the assertions have passed *)
Construct(s, warmup_steps, warmup_factor) ==
    LET pg   == s.optimizer.param_groups
        base == s.heap[pg]
        pre  == PreCompute(s, pg, base, warmup_steps)
        w    == [present |-> TRUE,
                 warmup_steps |-> warmup_steps,
                 warmup_factor |-> warmup_factor,
                 param_groups |-> pg,
                 base_lrs |-> base,
                 regular_lrs_in_warmup |-> pre.regular,
                 last_step |-> 0]
    IN  [SetList(pre.sys, pg, [g \in DOMAIN base |-> RMul(base[g], warmup_factor)])
            EXCEPT !.scheduler = w]

(* regular_lrs_in_warmup[i] of the 0-indexed Python list *)
Regular(w, i) == w.regular_lrs_in_warmup[i + 1]

(* variant: the ramp runs from 1 down to warmup_factor *)
WarmupFactorSwapped(w, cur_step) ==
    LET alpha == Rat(cur_step, w.warmup_steps)
    IN  RAdd(RMul(w.warmup_factor, alpha), RSub(RInt(1), alpha))

WarmupFactorAt(w, cur_step) ==
    LET alpha == Rat(cur_step, w.warmup_steps)
    IN  RAdd(RMul(w.warmup_factor, RSub(RInt(1), alpha)), alpha)

(* variant: the ramp is applied to base_lrs, not to the trajectory *)
GetWarmupLrsFromBase(w, cur_step, regular_lrs) ==
    [g \in DOMAIN regular_lrs |-> RMul(w.base_lrs[g], WarmupFactorAt(w, cur_step))]

GetWarmupLrs(w, cur_step, regular_lrs) ==
    [g \in DOMAIN regular_lrs |-> RMul(regular_lrs[g], WarmupFactorAt(w, cur_step))]

(* variant: the first entry of the trajectory instead of the last *)
HandoffLrsFirst(w) == w.regular_lrs_in_warmup[1]

(* the rates written when last_step reaches warmup_steps *)
HandoffLrs(w) == w.regular_lrs_in_warmup[Len(w.regular_lrs_in_warmup)]

(* variant: delegation starts at last_step = warmup_steps *)
WrapperStepEager(s) ==
    LET w  == [s.scheduler EXCEPT !.last_step = @ + 1]
        s1 == [s EXCEPT !.scheduler = w]
    IN  IF w.last_step < w.warmup_steps
        THEN SetList(s1, w.param_groups,
                     GetWarmupLrs(w, w.last_step, Regular(w, w.last_step)))
        ELSE TorchStep(s1)

WrapperStep(s) ==
    LET w  == [s.scheduler EXCEPT !.last_step = @ + 1]
        s1 == [s EXCEPT !.scheduler = w]
    IN  IF w.last_step < w.warmup_steps
        THEN SetList(s1, w.param_groups,
                     GetWarmupLrs(w, w.last_step, Regular(w, w.last_step)))
        ELSE IF w.last_step = w.warmup_steps
        THEN SetList(s1, w.param_groups, HandoffLrs(w))
        ELSE TorchStep(s1)

(* scheduler.step() on whatever build_scheduler returned *)
SchedulerStep(s) == IF s.scheduler.present THEN WrapperStep(s) ELSE TorchStep(s)

(* attributes assigned by __init__, i.e. the keys of self.__dict__ *)
WrapperAttrs ==
    {"torch_scheduler", "warmup_steps", "warmup_factor", "param_groups",
     "base_lrs", "regular_lrs_in_warmup", "last_step"}

(* LRWarmupWrapper.state_dict: lists are stored by value once serialized  *)
WrapperStateDict(s) ==
    [key \in (WrapperAttrs \ {"torch_scheduler"}) \cup {"torch_scheduler"} |->
        IF key = "torch_scheduler" THEN s.torch_scheduler
        ELSE IF key = "param_groups" THEN s.heap[s.scheduler.param_groups]
        ELSE s.scheduler[key]]

StateDict(s) == IF s.scheduler.present THEN WrapperStateDict(s) ELSE s.torch_scheduler

(* LRWarmupWrapper.load_state_dict: the nested state goes to the torch     *)
(* scheduler, every other key overwrites the attribute of that name; the  *)
(* deserialized param_groups is a new list object.                        *)
WrapperLoadStateDict(s, sd) ==
    LET id == Len(s.heap) + 1
    IN  [s EXCEPT !.torch_scheduler = sd.torch_scheduler,
                  !.heap = Append(@, sd.param_groups),
                  !.scheduler = [key \in DOMAIN s.scheduler |->
                                    IF key = "param_groups" THEN id
                                    ELSE IF key \in DOMAIN sd THEN sd[key]
                                    ELSE s.scheduler[key]]]

LoadStateDict(s, sd) ==
    IF s.scheduler.present THEN WrapperLoadStateDict(s, sd)
    ELSE [s EXCEPT !.torch_scheduler = sd]

(* Optimizer.state_dict / load_state_dict: loading installs a new list of *)
(* new group dicts as optimizer.param_groups.                              *)
OptimizerStateDict(s) == [param_groups |-> OptLrs(s)]

OptimizerLoadStateDict(s, osd) ==
    [s EXCEPT !.heap = Append(@, osd.param_groups),
              !.optimizer = [param_groups |-> Len(s.heap) + 1]]

(* ------------------------------ build_scheduler ------------------------ *)
SupportedNames == {"CosineAnnealingLR", "MultiStepLR"}

Ok(s)    == [err |-> "none", sys |-> s]
Raise(e, s) == [err |-> e, sys |-> s]

(* LRWarmupWrapper(torch_scheduler, warmup_steps, warmup_factor) *)
NewWrapper(s, warmup_steps, warmup_factor) ==
    IF CtorAsserts(warmup_steps, warmup_factor)
    THEN Ok(Construct(s, warmup_steps.v[1], warmup_factor.v))
    ELSE Raise("AssertionError", s)

(* variant: WARMUP_STEPS = 0 also asks for a wrapper *)
WantsWarmupFromZero(c) ==
    c.WARMUP_STEPS.t # "absent" /\ RLe(RInt(0), c.WARMUP_STEPS.v)

WantsWarmup(c) ==
    c.WARMUP_STEPS.t # "absent" /\ RLt(RInt(0), c.WARMUP_STEPS.v)

BuildScheduler(c) ==
    IF c.SCHED.NAME \notin SupportedNames
    THEN Raise("ValueError", NewTorchScheduler(c))
    ELSE IF WantsWarmup(c)
    THEN IF c.WARMUP_FACTOR.t = "absent"
         THEN Raise("AttributeError", NewTorchScheduler(c))
         ELSE NewWrapper(NewTorchScheduler(c), c.WARMUP_STEPS, c.WARMUP_FACTOR)
    ELSE Ok(NewTorchScheduler(c))

(* the direct construction of _test: a bare scheduler from build_scheduler *)
(* wrapped by hand, omitted arguments taking the defaults of __init__     *)
DefaultWarmupSteps  == Int_(0)
DefaultWarmupFactor == Float_(Rat(1, 10))

BuildDirect(c) ==
    LET bare == BuildScheduler([c EXCEPT !.WARMUP_STEPS = Absent])
        ws   == IF c.WARMUP_STEPS.t = "absent" THEN DefaultWarmupSteps ELSE c.WARMUP_STEPS
        wf   == IF c.WARMUP_FACTOR.t = "absent" THEN DefaultWarmupFactor ELSE c.WARMUP_FACTOR
    IN  IF bare.err # "none" THEN bare
        ELSE LET r == NewWrapper(bare.sys, ws, wf)
             IN  [r EXCEPT !.sys = [@ EXCEPT !.cfg = c]]

Fresh(c, v) == IF v = "build_scheduler" THEN BuildScheduler(c) ELSE BuildDirect(c)

(* ------------------------------ the state machine ---------------------- *)
Sys == [cfg |-> cfg, heap |-> heap, optimizer |-> optimizer,
        torch_scheduler |-> torch_scheduler, scheduler |-> scheduler]

Install(s) ==
    /\ heap' = s.heap
    /\ optimizer' = s.optimizer
    /\ torch_scheduler' = s.torch_scheduler
    /\ scheduler' = s.scheduler

NoCkpt ==
    [has |-> FALSE, optimizer |-> [param_groups |-> <<>>],
     scheduler |-> [last_step |-> 0], step |-> 0]

(* the driver before main has started *)
IdleDriver ==
    [pc |-> "idle", step |-> 0, n_steps |-> 0, b |-> 0, batch |-> 0,
     start |-> 0, trained |-> 0, updates |-> 0, saved |-> FALSE,
     runs |-> 0, disk |-> {}]

Init ==
    /\ cfg \in Configs
    /\ pc = "start"
    /\ via = "none"
    /\ err = "none"
    /\ heap = <<cfg.lr>>
    /\ optimizer = [param_groups |-> 1]
    /\ torch_scheduler = NewTorchScheduler(cfg).torch_scheduler
    /\ scheduler = NoWrapper
    /\ ckpt = NoCkpt
    /\ calls = 0
    /\ resumedAt = -1
    /\ drv = IdleDriver

Started(v, r) ==
    /\ via' = v
    /\ err' = r.err
    /\ pc' = IF r.err = "none" THEN "running" ELSE "failed"
    /\ Install(r.sys)
    /\ UNCHANGED <<cfg, ckpt, calls, resumedAt, drv>>

(* train.py: scheduler = build_scheduler(optimizer, conf) *)
CallBuildScheduler ==
    /\ pc = "start"
    /\ Started("build_scheduler", BuildScheduler(cfg))

(* scheduler.py _test: LRWarmupWrapper(build_scheduler(...), ...) *)
CallBuildDirect ==
    /\ pc = "start"
    /\ Started("direct", BuildDirect(cfg))

(* train_step: scheduler.step() *)
Step ==
    /\ pc = "running"
    /\ calls < MaxCalls
    /\ Install(SchedulerStep(Sys))
    /\ calls' = calls + 1
    /\ UNCHANGED <<cfg, pc, via, err, ckpt, resumedAt, drv>>

(* save_ckpt: the training states *)
SaveCkpt ==
    /\ pc = "running"
    /\ resumedAt = -1
    /\ ckpt' = [has |-> TRUE,
                optimizer |-> OptimizerStateDict(Sys),
                scheduler |-> StateDict(Sys),
                step |-> calls]
    /\ UNCHANGED <<cfg, pc, via, err, heap, optimizer, torch_scheduler,
                   scheduler, calls, resumedAt, drv>>

(* a new process: optimizer and scheduler are built afresh, then both are *)
(* restored from the checkpoint (main, RESUME TRAINING)                    *)
Resumed(c, v, ck) ==
    LoadStateDict(OptimizerLoadStateDict(Fresh(c, v).sys, ck.optimizer), ck.scheduler)

Resume ==
    /\ pc = "running"
    /\ ckpt.has
    /\ resumedAt = -1
    /\ Install(Resumed(cfg, via, ckpt))
    /\ calls' = ckpt.step
    /\ resumedAt' = ckpt.step
    /\ UNCHANGED <<cfg, pc, via, err, ckpt, drv>>

Next == CallBuildScheduler \/ CallBuildDirect \/ Step \/ SaveCkpt \/ Resume

Spec == Init /\ [][Next]_vars

(* ------------------------------ reference runs ------------------------- *)
RECURSIVE Run(_, _)
Run(s, n) == IF n = 0 THEN s ELSE Run(SchedulerStep(s), n - 1)

(* the state of an uninterrupted run after n calls to scheduler.step() *)
Uninterrupted(n) == Run(Fresh(cfg, via).sys, n)

RECURSIVE TorchRun(_, _)
TorchRun(s, n) == IF n = 0 THEN s ELSE TorchRun(TorchStep(s), n - 1)

(* the underlying schedule alone, after n calls to its own step() *)
Reference(n) == TorchRun(NewTorchScheduler(cfg), n)

TypeOK ==
    /\ pc \in {"start", "running", "failed"}
    /\ calls \in 0..MaxCalls
    /\ \A i \in DOMAIN heap : \A g \in DOMAIN heap[i] : heap[i][g][2] > 0

(* ------------------------------ properties ----------------------------- *)
FreshWrapper == pc = "running" /\ scheduler.present /\ resumedAt = -1

WrapperLrs == heap[scheduler.param_groups]

(* C1: on a freshly constructed wrapper, after n > warmup_steps calls to  *)
(* step() every group's rate is the rate the underlying schedule alone    *)
(* has after n calls to its own step().                                   *)
C1_MatchesReferenceAfterWarmup ==
    (FreshWrapper /\ calls > scheduler.warmup_steps)
        => OptLrs(Sys) = OptLrs(Reference(calls))

C1_Witness ==
    /\ FreshWrapper
    /\ calls > scheduler.warmup_steps + 1
    /\ OptLrs(Sys) # scheduler.base_lrs
    /\ OptLrs(Sys) # HandoffLrs(scheduler)

(* C2: when step() brings last_step to warmup_steps, the wrapper's groups *)
(* hold the final entry of the precomputed trajectory, which is the rate  *)
(* of the underlying schedule alone after warmup_steps steps; on a run    *)
(* that was not resumed these groups are the optimizer's.                 *)
C2_HandoffIsReference ==
    [][(pc = "running" /\ scheduler.present /\ calls' = calls + 1
            /\ scheduler'.last_step = scheduler.warmup_steps)
        => /\ heap'[scheduler'.param_groups]
                = scheduler.regular_lrs_in_warmup[scheduler.warmup_steps + 1]
           /\ Len(scheduler.regular_lrs_in_warmup) = scheduler.warmup_steps + 1
           /\ heap'[scheduler'.param_groups]
                = OptLrs(Reference(scheduler.warmup_steps))
           /\ (resumedAt = -1 => scheduler'.param_groups = optimizer'.param_groups)]_vars

C2_Witness ==
    /\ FreshWrapper
    /\ calls = scheduler.warmup_steps
    /\ scheduler.last_step = scheduler.warmup_steps
    /\ OptLrs(Sys) # scheduler.base_lrs

(* C3: a run resumed from the checkpoint taken after k calls and stepped  *)
(* m more times has the optimizer rates and the last_step of an           *)
(* uninterrupted run of k+m calls.                                        *)
C3_RoundTrip ==
    (pc = "running" /\ scheduler.present /\ resumedAt >= 0)
        => /\ OptLrs(Sys) = OptLrs(Uninterrupted(calls))
           /\ scheduler.last_step = Uninterrupted(calls).scheduler.last_step

(* C4: right after construction last_step is 0 and every group's rate is  *)
(* its rate before construction times warmup_factor.                      *)
C4_InitialRate ==
    (FreshWrapper /\ calls = 0)
        => /\ scheduler.last_step = 0
           /\ DOMAIN OptLrs(Sys) = DOMAIN cfg.lr
           /\ \A g \in DOMAIN cfg.lr :
                OptLrs(Sys)[g] = RMul(cfg.lr[g], scheduler.warmup_factor)

C4_Witness ==
    /\ FreshWrapper
    /\ calls = 0
    /\ OptLrs(Sys) # cfg.lr
    /\ HandoffLrs(scheduler) # cfg.lr

(* C5: when step() brings last_step to s with 0 < s < warmup_steps, every *)
(* group g of the wrapper gets regular_lrs_in_warmup[s][g] *              *)
(* (warmup_factor * (1 - s/warmup_steps) + s/warmup_steps), where         *)
(* regular_lrs_in_warmup[s] is the rate of the underlying schedule alone  *)
(* after s steps, and the underlying schedule is not stepped; on a run    *)
(* that was not resumed these groups are the optimizer's.                 *)
C5_WarmupRate ==
    [][(pc = "running" /\ scheduler.present /\ calls' = calls + 1
            /\ 0 < scheduler'.last_step
            /\ scheduler'.last_step < scheduler.warmup_steps)
        => LET W  == scheduler.warmup_steps
               S  == scheduler'.last_step
               wf == scheduler.warmup_factor
               f  == RAdd(RMul(wf, RSub(RInt(1), Rat(S, W))), Rat(S, W))
               r  == OptLrs(Reference(S))
           IN  /\ scheduler.regular_lrs_in_warmup[S + 1] = r
               /\ heap'[scheduler'.param_groups] = [g \in DOMAIN r |-> RMul(r[g], f)]
               /\ torch_scheduler' = torch_scheduler
               /\ (resumedAt = -1 =>
                     scheduler'.param_groups = optimizer'.param_groups)]_vars

C5_Witness ==
    /\ FreshWrapper
    /\ scheduler.last_step = 2
    /\ scheduler.warmup_steps > 2
    /\ Regular(scheduler, 2) # scheduler.base_lrs
    /\ OptLrs(Sys) # Regular(scheduler, 2)

(* the arguments the constructor receives on the direct path *)
ArgSteps  == IF cfg.WARMUP_STEPS.t = "absent" THEN DefaultWarmupSteps ELSE cfg.WARMUP_STEPS
ArgFactor == IF cfg.WARMUP_FACTOR.t = "absent" THEN DefaultWarmupFactor ELSE cfg.WARMUP_FACTOR

Constructed == pc # "start" /\ via = "direct" /\ cfg.SCHED.NAME \in SupportedNames

(* C6 as stated: construction fails if warmup_steps <= 0 or               *)
(* warmup_factor >= 1, and succeeds for every integer warmup_steps > 0    *)
(* and every real warmup_factor with 0 <= warmup_factor < 1.              *)
C6_Original ==
    Constructed
        => /\ (RLe(ArgSteps.v, RInt(0)) \/ RLe(RInt(1), ArgFactor.v))
                => err = "AssertionError"
           /\ (ArgSteps.t = "int" /\ RLt(RInt(0), ArgSteps.v)
                  /\ RLe(RInt(0), ArgFactor.v) /\ RLt(ArgFactor.v, RInt(1)))
                => (err = "none" /\ scheduler.present)

(* C6 amended: construction fails with an AssertionError if warmup_steps  *)
(* is not an int, warmup_factor is not a float, warmup_steps <= 0 or      *)
(* warmup_factor >= 1, and succeeds for every int warmup_steps > 0 and    *)
(* every float warmup_factor < 1.                                         *)
C6_ConstructionGuard ==
    Constructed
        => IF \/ ArgSteps.t # "int" \/ ArgFactor.t # "float"
              \/ RLe(ArgSteps.v, RInt(0)) \/ RLe(RInt(1), ArgFactor.v)
           THEN err = "AssertionError" /\ pc = "failed" /\ ~scheduler.present
           ELSE err = "none" /\ pc = "running" /\ scheduler.present

C6_Witness ==
    /\ Constructed
    /\ pc = "failed"
    /\ ArgSteps.t = "int" /\ RLt(RInt(0), ArgSteps.v)
    /\ ArgFactor.t = "int" /\ ArgFactor.v = RInt(0)

(* C7: state_dict() of the wrapper has exactly the keys warmup_steps,     *)
(* warmup_factor, last_step, base_lrs, regular_lrs_in_warmup and the      *)
(* nested entry of the underlying schedule's state.                       *)
C7_StateDictKeys ==
    (pc = "running" /\ scheduler.present)
        => DOMAIN StateDict(Sys)
             = {"warmup_steps", "warmup_factor", "last_step", "base_lrs",
                "regular_lrs_in_warmup", "torch_scheduler"}

Built == pc # "start" /\ via = "build_scheduler"

Untouched ==
    /\ torch_scheduler.last_epoch = 0
    /\ OptLrs(Sys) = cfg.lr

(* C8 as stated: build_scheduler returns the underlying schedule itself,  *)
(* unwrapped and not advanced, whenever WARMUP_STEPS is absent or <= 0,   *)
(* and returns a wrapper exactly when WARMUP_STEPS is present and > 0.    *)
C8_Original ==
    Built
        => /\ (cfg.WARMUP_STEPS.t = "absent" \/ RLe(cfg.WARMUP_STEPS.v, RInt(0)))
                => (err = "none" /\ ~scheduler.present /\ (calls = 0 => Untouched))
           /\ ((err = "none" /\ scheduler.present)
                <=> (cfg.WARMUP_STEPS.t # "absent" /\ RLt(RInt(0), cfg.WARMUP_STEPS.v)))

(* C8 amended: for a supported schedule name, build_scheduler returns the *)
(* underlying schedule itself, unwrapped and not advanced, whenever       *)
(* WARMUP_STEPS is absent or <= 0; when WARMUP_STEPS is present and > 0   *)
(* it constructs a wrapper and returns it if WARMUP_STEPS is an int and   *)
(* WARMUP_FACTOR is a float < 1, and raises otherwise (also when          *)
(* WARMUP_FACTOR is absent); an unsupported name raises a ValueError.     *)
C8_BuildScheduler ==
    Built
        => IF cfg.SCHED.NAME \notin SupportedNames
           THEN err = "ValueError" /\ pc = "failed"
           ELSE IF cfg.WARMUP_STEPS.t = "absent" \/ RLe(cfg.WARMUP_STEPS.v, RInt(0))
           THEN err = "none" /\ pc = "running" /\ ~scheduler.present
                  /\ (calls = 0 => Untouched)
           ELSE IF cfg.WARMUP_STEPS.t = "int" /\ cfg.WARMUP_FACTOR.t = "float"
                     /\ RLt(cfg.WARMUP_FACTOR.v, RInt(1))
           THEN err = "none" /\ pc = "running" /\ scheduler.present
                  /\ scheduler.warmup_steps = cfg.WARMUP_STEPS.v[1]
           ELSE err \in {"AssertionError", "AttributeError"} /\ pc = "failed"

C8_Witness ==
    /\ Built
    /\ pc = "failed"
    /\ cfg.SCHED.NAME \in SupportedNames
    /\ cfg.WARMUP_STEPS.t = "int" /\ RLt(RInt(0), cfg.WARMUP_STEPS.v)
    /\ cfg.WARMUP_FACTOR = Float_(RInt(1))

(* the underlying schedule alone never raises a group's rate *)
NonIncreasingSchedule ==
    \A n \in 0..MaxCalls : \A g \in DOMAIN cfg.lr :
        RLe(OptLrs(Reference(n + 1))[g], OptLrs(Reference(n))[g])

(* a call to step() that takes last_step from s to s+1, both in           *)
(* [1, warmup_steps)                                                      *)
WarmupToWarmup ==
    /\ pc = "running" /\ scheduler.present /\ calls' = calls + 1
    /\ 1 <= scheduler.last_step
    /\ scheduler'.last_step = scheduler.last_step + 1
    /\ scheduler'.last_step < scheduler.warmup_steps

(* C9 as stated: for a non-increasing underlying schedule and             *)
(* warmup_factor < 1, the rate produced at last_step = s is strictly less *)
(* than the rate produced at s+1, for s, s+1 in [1, warmup_steps).        *)
C9_Original ==
    [][(WarmupToWarmup /\ NonIncreasingSchedule)
        => \A g \in DOMAIN WrapperLrs : RLt(WrapperLrs[g], WrapperLrs'[g])]_vars

(* C9 amended: for warmup_factor < 1 the interpolation factor is strictly *)
(* larger at s+1 than at s, and the rate produced at s is strictly less   *)
(* than the rate produced at s+1 for every group whose underlying rate is *)
(* positive and the same at s and s+1, for s, s+1 in [1, warmup_steps).   *)
C9_IncreasingWhileRegularConstant ==
    [][WarmupToWarmup
        => LET S == scheduler.last_step
           IN  /\ RLt(RDiv(RAdd(RMul(scheduler.warmup_factor,
                                     RInt(scheduler.warmup_steps - S)), RInt(S)),
                           RInt(scheduler.warmup_steps)),
                      RDiv(RAdd(RMul(scheduler.warmup_factor,
                                     RInt(scheduler.warmup_steps - S - 1)), RInt(S + 1)),
                           RInt(scheduler.warmup_steps)))
               /\ \A g \in DOMAIN WrapperLrs :
                    (/\ OptLrs(Reference(S))[g] = OptLrs(Reference(S + 1))[g]
                     /\ RLt(RInt(0), OptLrs(Reference(S))[g]))
                        => RLt(WrapperLrs[g], WrapperLrs'[g])]_vars

C9_Witness ==
    /\ FreshWrapper
    /\ scheduler.last_step = 3
    /\ scheduler.warmup_steps > 3
    /\ cfg.SCHED.NAME = "MultiStepLR"
    /\ Regular(scheduler, 2) = Regular(scheduler, 3)
    /\ RLt(Regular(scheduler, 3)[1], Regular(scheduler, 0)[1])

(* C10: on a run from construction by calls to step(), the underlying     *)
(* schedule's position is max(warmup_steps, last_step).                   *)
C10_UnderlyingPosition ==
    FreshWrapper
        => /\ scheduler.last_step = calls
           /\ torch_scheduler.last_epoch =
                IF scheduler.last_step > scheduler.warmup_steps
                THEN scheduler.last_step ELSE scheduler.warmup_steps

C10_Witness ==
    /\ FreshWrapper
    /\ scheduler.last_step > scheduler.warmup_steps + 1
    /\ torch_scheduler.last_epoch = scheduler.last_step

(* ------------------------------ the training driver -------------------- *)
(* main of train.py, one action per statement of the training loop.  The  *)
(* outcome of check_freq(freq, step) and of the accuracy comparison is    *)
(* chosen afresh for each step; the check after the loop repeats the      *)
(* in-loop check of the last step and so gets the same answer.            *)
DriverConfigs ==
    {[SCHED |-> [NAME |-> "MultiStepLR", COSINE_T_MAX |-> 1,
                 COSINE_ETA_MIN |-> RInt(0), MULTISTEP_MILESTONES |-> <<2>>,
                 MULTISTEP_GAMMA |-> Rat(1, 10)],
      WARMUP_STEPS |-> Int_(2), WARMUP_FACTOR |-> Float_(Rat(1, 10)),
      lr |-> <<Rat(1, 10)>>],
     [SCHED |-> [NAME |-> "CosineAnnealingLR", COSINE_T_MAX |-> 3,
                 COSINE_ETA_MIN |-> RInt(0), MULTISTEP_MILESTONES |-> <<>>,
                 MULTISTEP_GAMMA |-> RInt(1)],
      WARMUP_STEPS |-> Absent, WARMUP_FACTOR |-> Absent,
      lr |-> <<RInt(1)>>]}

DriverInit ==
    /\ cfg \in DriverConfigs
    /\ pc = "start"
    /\ via = "none"
    /\ err = "none"
    /\ heap = <<cfg.lr>>
    /\ optimizer = [param_groups |-> 1]
    /\ torch_scheduler = NewTorchScheduler(cfg).torch_scheduler
    /\ scheduler = NoWrapper
    /\ ckpt = NoCkpt
    /\ calls = 0
    /\ resumedAt = -1
    /\ \E b \in 0..MaxBatches : drv = [IdleDriver EXCEPT !.b = b]

(* the scheduler's own step counter *)
SchedulerPosition ==
    IF scheduler.present THEN scheduler.last_step ELSE torch_scheduler.last_epoch

BestName    == [kind |-> "best", idx |-> 0]
StepName(k) == [kind |-> "step", idx |-> k]

(* save_ckpt(save_path): overwrites the files under save_path; the step   *)
(* stored is the value of main's step variable when save_ckpt runs        *)
Saved(d, name) ==
    {f \in d.disk : f.name # name}
        \cup {[name |-> name,
               ck |-> [has |-> TRUE,
                       optimizer |-> OptimizerStateDict(Sys),
                       scheduler |-> StateDict(Sys),
                       step |-> d.step]]}

Goto(l) == drv' = [drv EXCEPT !.pc = l]

SchedulerSame == UNCHANGED <<heap, optimizer, torch_scheduler, scheduler>>

(* a first run: build everything, step = 0 *)
MainStartCtl ==
    /\ drv.pc = "idle"
    /\ \E n \in 0..MaxSteps :
         drv' = [drv EXCEPT !.pc = "while", !.n_steps = n, !.step = 0,
                            !.start = 0, !.runs = 1]

MainStart ==
    /\ MainStartCtl
    /\ pc' = "running"
    /\ via' = "build_scheduler"
    /\ Install(BuildScheduler(cfg).sys)
    /\ UNCHANGED <<cfg, err, ckpt, calls, resumedAt>>

(* a later run with --resume: build everything, then restore optimizer,   *)
(* scheduler and step from one of the checkpoints on disk                 *)
MainResume ==
    /\ drv.pc # "idle"
    /\ drv.runs < MaxRuns
    /\ \E f \in drv.disk, n \in 0..MaxSteps :
         /\ Install(Resumed(cfg, "build_scheduler", f.ck))
         /\ ckpt' = f.ck
         /\ resumedAt' = f.ck.step
         /\ drv' = [drv EXCEPT !.pc = "while", !.n_steps = n,
                               !.step = f.ck.step + 1, !.start = f.ck.step + 1,
                               !.batch = 0, !.trained = 0, !.updates = 0,
                               !.saved = FALSE, !.runs = @ + 1]
    /\ calls' = 0
    /\ UNCHANGED <<cfg, pc, via, err>>

(* while step < conf.train.n_steps: a new pass over train_loader *)
While ==
    /\ drv.pc = "while"
    /\ drv' = IF drv.step < drv.n_steps
              THEN [drv EXCEPT !.pc = "for", !.batch = 0]
              ELSE [drv EXCEPT !.pc = "final"]
    /\ SchedulerSame
    /\ UNCHANGED <<cfg, pc, via, err, ckpt, calls, resumedAt>>

(* for _batch in train_loader: the next batch, or the end of the pass *)
ForNext ==
    /\ drv.pc = "for"
    /\ drv' = IF drv.batch < drv.b
              THEN [drv EXCEPT !.pc = "body", !.batch = @ + 1]
              ELSE [drv EXCEPT !.pc = "while"]
    /\ SchedulerSame
    /\ UNCHANGED <<cfg, pc, via, err, ckpt, calls, resumedAt>>

(* if step >= conf.train.n_steps: break *)
BreakCheck ==
    /\ drv.pc = "body"
    /\ Goto(IF drv.step >= drv.n_steps THEN "while" ELSE "optimizer")
    /\ SchedulerSame
    /\ UNCHANGED <<cfg, pc, via, err, ckpt, calls, resumedAt>>

(* train_step: optimizer.step() *)
OptimizerStep ==
    /\ drv.pc = "optimizer"
    /\ drv' = [drv EXCEPT !.pc = "scheduler", !.updates = @ + 1]
    /\ SchedulerSame
    /\ UNCHANGED <<cfg, pc, via, err, ckpt, calls, resumedAt>>

(* train_step: scheduler.step() *)
SchedulerStepCtl ==
    /\ drv.pc = "scheduler"
    /\ drv' = [drv EXCEPT !.pc = "eval", !.trained = @ + 1]

SchedulerStepCall ==
    /\ SchedulerStepCtl
    /\ Install(SchedulerStep(Sys))
    /\ calls' = calls + 1
    /\ UNCHANGED <<cfg, pc, via, err, ckpt, resumedAt>>

(* the evaluation block: saves ckpt/best when it ran and accuracy improved *)
Evaluate ==
    /\ drv.pc = "eval"
    /\ \E improved \in BOOLEAN :
         drv' = [drv EXCEPT !.pc = "save",
                            !.disk = IF improved THEN Saved(drv, BestName) ELSE @]
    /\ SchedulerSame
    /\ UNCHANGED <<cfg, pc, via, err, ckpt, calls, resumedAt>>

(* if check_freq(conf.train.save_freq, step): save_ckpt(.../step{step}) *)
SaveCheck ==
    /\ drv.pc = "save"
    /\ \E due \in BOOLEAN :
         drv' = [drv EXCEPT !.pc = "inc", !.saved = due,
                            !.disk = IF due THEN Saved(drv, StepName(drv.step)) ELSE @]
    /\ SchedulerSame
    /\ UNCHANGED <<cfg, pc, via, err, ckpt, calls, resumedAt>>

(* step += 1 *)
Increment ==
    /\ drv.pc = "inc"
    /\ drv' = [drv EXCEPT !.pc = "for", !.step = @ + 1]
    /\ SchedulerSame
    /\ UNCHANGED <<cfg, pc, via, err, ckpt, calls, resumedAt>>

(* if not check_freq(conf.train.save_freq, step - 1):                     *)
(*     save_ckpt(.../step{step-1})                                        *)
FinalSave ==
    /\ drv.pc = "final"
    /\ \E due \in BOOLEAN :
         /\ drv.trained > 0 => due = drv.saved
         /\ drv' = [drv EXCEPT !.pc = "done",
                               !.disk = IF due THEN @
                                        ELSE Saved(drv, StepName(drv.step - 1))]
    /\ SchedulerSame
    /\ UNCHANGED <<cfg, pc, via, err, ckpt, calls, resumedAt>>

(* the statements that leave optimizer and scheduler alone *)
Bookkeeping ==
    \/ While \/ ForNext \/ BreakCheck \/ OptimizerStep
    \/ Evaluate \/ SaveCheck \/ Increment \/ FinalSave

MainLoop == MainStart \/ SchedulerStepCall \/ Bookkeeping

DriverNext == MainLoop \/ MainResume

DriverSpec == DriverInit /\ [][DriverNext]_vars

(* the process is single-threaded and runs whenever it can: every         *)
(* statement of the loop is taken once control reaches it (building the   *)
(* scheduler and scheduler.step() always return, so they are enabled      *)
(* exactly when their control part is)                                    *)
FairDriverSpec ==
    /\ DriverInit /\ [][DriverNext]_vars
    /\ WF_vars(Bookkeeping)
    /\ WF_drv(MainStartCtl)
    /\ WF_drv(SchedulerStepCtl)

DriverTypeOK ==
    /\ drv.pc \in {"idle", "while", "for", "body", "optimizer", "scheduler",
                   "eval", "save", "inc", "final", "done"}
    /\ drv.step \in 0..(MaxSteps + MaxRuns)
    /\ drv.batch \in 0..drv.b

(* C11: every training step calls scheduler.step() exactly once, after    *)
(* the optimizer's update of that step, and at the start of every loop    *)
(* iteration the scheduler's last_step equals the driver's step, on a     *)
(* fresh run and on a run resumed from any checkpoint the driver saved.   *)
C11_SchedulerInLockstep ==
    /\ drv.updates = calls + (IF drv.pc = "scheduler" THEN 1 ELSE 0)
    /\ drv.trained = calls
    /\ drv.pc = "body" => SchedulerPosition = drv.step

(* C12: for every start step, n_steps and number of batches per pass the  *)
(* training loop eventually exits, having executed exactly                *)
(* max(0, n_steps - start) training steps, and after exit a checkpoint    *)
(* for the last step index (step - 1) has been saved.                     *)
C12_ExitsWithLastCheckpoint ==
    <>(/\ drv.pc = "done"
       /\ drv.trained = (IF drv.n_steps > drv.start
                         THEN drv.n_steps - drv.start ELSE 0)
       /\ \E f \in drv.disk : f.name = StepName(drv.step - 1))

====
